---- MODULE Spec2Model ----
(***************************************************************************)
(* Model of main.py: a Flask webhook that relays Telegram messages to      *)
(* OpenAI chat completion, OpenAI image generation and gTTS speech         *)
(* synthesis.  One request is processed at a time; every external call     *)
(* (provider or Telegram) is a step whose outcome is chosen                *)
(* nondeterministically among the outcomes the library can produce.        *)
(* Strings are sequences of one-character strings so that startswith,     *)
(* partition and strip are computed, not assumed.                          *)
(***************************************************************************)
EXTENDS Naturals, Sequences, FiniteSets

VARIABLES
    WEBHOOK_SECRET, \* configured secret; "" stands for unset/empty (falsy)
    pc,             \* position of the request being processed
    reqno,          \* number of the request being processed
    request,        \* [route, secret, body] of the current request
    accepted,       \* the route passed its secret check
    status,         \* HTTP status of the response, 0 while none was produced
    text,           \* handle_update: text
    prompt,         \* handle_update: prompt
    result,         \* value returned by the capability helper
    provider,       \* what the external provider did on the capability call
    calls,          \* external calls made for this request, in order
    files           \* temporary files that exist on disk

vars == <<WEBHOOK_SECRET, pc, reqno, request, accepted, status, text, prompt,
          result, provider, calls, files>>

----------------------------------------------------------------------------
(* Bounds *)

\* Longest argument appended to a command head in an incoming text.
MaxArgLen == 2

\* Number of webhook requests processed in one behaviour.
MaxRequests == 2

----------------------------------------------------------------------------
(* Strings *)

S_start  == <<"/", "s", "t", "a", "r", "t">>
S_help   == <<"/", "h", "e", "l", "p">>
S_imagen == <<"/", "i", "m", "a", "g", "e", "n">>
S_voz    == <<"/", "v", "o", "z">>
S_tts    == <<"/", "t", "t", "s">>
S_http   == <<"h", "t", "t", "p">>

\* Characters str.strip() removes (the ones the model's alphabet contains).
Whitespace == {" ", "\n"}

\* str.startswith
StartsWith(s, p) ==
    /\ Len(s) >= Len(p)
    /\ SubSeq(s, 1, Len(p)) = p

RECURSIVE LStrip(_)
LStrip(s) ==
    IF s = <<>> THEN <<>>
    ELSE IF Head(s) \in Whitespace THEN LStrip(Tail(s)) ELSE s

RECURSIVE RStrip(_)
RStrip(s) ==
    IF s = <<>> THEN <<>>
    ELSE IF s[Len(s)] \in Whitespace THEN RStrip(SubSeq(s, 1, Len(s) - 1)) ELSE s

\* str.strip()
Strip(s) == RStrip(LStrip(s))

\* text.partition(" ")[2]: what follows the first space, "" when there is none
PartitionTail(s) ==
    IF \E i \in 1..Len(s) : s[i] = " "
    THEN LET i == CHOOSE k \in 1..Len(s) :
                     /\ s[k] = " "
                     /\ \A j \in 1..(k - 1) : s[j] # " "
         IN SubSeq(s, i + 1, Len(s))
    ELSE <<>>

\* the mutant keeps the raw tail: the .strip() is forgotten
ArgumentNoStrip(t) == PartitionTail(t)

\* text.partition(" ")[2].strip()
Argument(t) == Strip(PartitionTail(t))

\* text.startswith("/start") or text.startswith("/help")
IsHelp(t) == StartsWith(t, S_start) \/ StartsWith(t, S_help)

\* text.startswith("/imagen"), reached only when IsHelp is false
IsImagen(t) == ~IsHelp(t) /\ StartsWith(t, S_imagen)

\* text.startswith("/voz") or text.startswith("/tts"), reached after the others
IsVoz(t) ==
    /\ ~IsHelp(t)
    /\ ~IsImagen(t)
    /\ (StartsWith(t, S_voz) \/ StartsWith(t, S_tts))

\* the default branch
IsChat(t) == ~IsHelp(t) /\ ~IsImagen(t) /\ ~IsVoz(t)

----------------------------------------------------------------------------
(* Fixed messages sent by the handler *)

HELP_TEXT   == <<"Hola! Soy tu bot IA. ... respondere usando ChatGPT.">>
USO_IMAGEN  == <<"Usa: /imagen <descripcion de la imagen>">>
GEN_IMAGEN  == <<"Generando imagen...">>
NO_IMAGEN   == <<"No pude generar la imagen. Intenta de nuevo mas tarde.">>
USO_VOZ     == <<"Usa: /voz <texto a convertir en audio>">>
GEN_AUDIO   == <<"Generando audio...">>
NO_AUDIO    == <<"No pude generar el audio. Intenta luego.">>
CHAT_ERROR  == <<"Lo siento, ocurrio un error al procesar la respuesta.">>

----------------------------------------------------------------------------
(* Inputs *)

RECURSIVE SeqsUpTo(_, _)
SeqsUpTo(S, n) ==
    IF n = 0 THEN {<<>>}
    ELSE LET shorter == SeqsUpTo(S, n - 1)
         IN shorter \cup {Append(s, c) : s \in shorter, c \in S}

Heads == {<<>>, S_start, S_help, S_imagen, S_voz, S_tts, <<"h", "o", "l", "a">>}
Separators == {<<>>, <<" ">>, <<"\n">>, <<"s">>}
Args == SeqsUpTo({"a", " "}, MaxArgLen)

\* message.text values of incoming text messages
Texts == {h \o s \o a : h \in Heads, s \in Separators, a \in Args}

\* request bodies: not JSON at all, an envelope de_json rejects, an update
\* without message, a message without text, a text message
Bodies ==
    {[kind |-> k, text |-> <<>>] :
        k \in {"not_json", "bad_envelope", "no_message", "non_text"}}
    \cup {[kind |-> "text", text |-> t] : t \in Texts}

Secrets == {"abc123", "wrong"}

NoResult == [present |-> FALSE, value |-> <<>>]
Some(v) == [present |-> TRUE, value |-> v]

\* Python truthiness of an optional string
Truthy(r) == r.present /\ r.value # <<>>

Call(op, arg, caption, file) ==
    [op |-> op, arg |-> arg, caption |-> caption, file |-> file]

----------------------------------------------------------------------------
(* Outcomes of the external libraries *)

B64Alphabet == {"i", "V", "B", "O", "a", "b", "c", "d", "e"}

RECURSIVE Groups(_)
Groups(s) ==
    IF Len(s) < 4 THEN <<>>
    ELSE <<SubSeq(s, 1, 4)>> \o Groups(SubSeq(s, 5, Len(s)))

\* base64.b64decode(s): characters outside the alphabet are discarded, then
\* every 4 characters give one group of bytes; a remainder is "Incorrect
\* padding" and raises binascii.Error
B64Decode(s) ==
    LET kept == SelectSeq(s, LAMBDA c : c \in B64Alphabet)
    IN [ok |-> Len(kept) % 4 = 0, data |-> Groups(kept)]

URL_RESULT  == S_http \o <<"s", ":", "/", "/", "x">>
B64_RESULT  == <<"i", "V", "B", "O">>
B64_BROKEN  == <<"a", "b", "c", "d", "e">>

NoProvider == [ok |-> FALSE, url |-> NoResult, b64 |-> NoResult,
               out |-> <<>>, stage |-> "none"]

\* openai.Image.create: raises, or answers data[0] with url and/or b64_json
ImageOutcomes ==
    {[NoProvider EXCEPT !.stage = "raised"]}
    \cup {[NoProvider EXCEPT !.ok = TRUE, !.stage = "answered",
                             !.url = u, !.b64 = b] :
            u \in {NoResult, Some(URL_RESULT)},
            b \in {NoResult, Some(B64_RESULT), Some(B64_BROKEN)}}

\* openai.ChatCompletion.create: raises, or answers choices[0].message.content
ChatOutcomes ==
    {[NoProvider EXCEPT !.stage = "raised"]}
    \cup {[NoProvider EXCEPT !.ok = TRUE, !.stage = "answered", !.out = o] :
            o \in {<<"o", "k">>, <<" ", "o", "k", "\n">>, <<"\n", " ">>}}

\* text_to_speech_save: the statement of its try block that raises, if any
TtsStages == {"gTTS", "mkstemp", "save", "returned"}

\* generate_image's return value: url, else b64_json; None on an exception
ImageReturn(o) ==
    IF ~o.ok THEN NoResult
    ELSE IF Truthy(o.url) THEN o.url ELSE o.b64

\* chatgpt_reply's return value: the stripped content; the fixed apology on
\* an exception
ChatReturn(o) == IF o.ok THEN Strip(o.out) ELSE CHAT_ERROR

\* the temporary file a request creates with the given suffix
TmpFile(n, suffix) == [req |-> n, suffix |-> suffix]

----------------------------------------------------------------------------
(* Initial state *)

NoRequest == [route |-> "none", secret |-> "", body |-> [kind |-> "none", text |-> <<>>]]

Init ==
    /\ WEBHOOK_SECRET \in {"", "abc123"}
    /\ pc = "idle"
    /\ reqno = 1
    /\ request = NoRequest
    /\ accepted = FALSE
    /\ status = 0
    /\ text = <<>>
    /\ prompt = <<>>
    /\ result = NoResult
    /\ provider = NoProvider
    /\ calls = <<>>
    /\ files = {}

----------------------------------------------------------------------------
(* Routes *)

\* the mutant forgets the abort(404)
PlainRouteRejectsNever == FALSE

\* webhook_no_secret: if WEBHOOK_SECRET: abort(404)
PlainRouteRejects == WEBHOOK_SECRET # ""

\* webhook_with_secret: if not WEBHOOK_SECRET or secret != WEBHOOK_SECRET
SecretRouteRejects(secret) == WEBHOOK_SECRET = "" \/ secret # WEBHOOK_SECRET

\* request.get_json(force=True) then the call of handle_update; a body that
\* is not JSON raises BadRequest, which Flask answers with 400
EnterHandler(req) ==
    /\ request' = req
    /\ accepted' = TRUE
    /\ IF req.body.kind = "not_json"
       THEN pc' = "done" /\ status' = 400
       ELSE pc' = "handle_update" /\ status' = 0

Reject(req, code) ==
    /\ request' = req
    /\ accepted' = FALSE
    /\ pc' = "done"
    /\ status' = code

webhook_no_secret ==
    /\ pc = "idle"
    /\ \E b \in Bodies :
         LET req == [route |-> "plain", secret |-> "", body |-> b]
         IN IF PlainRouteRejects THEN Reject(req, 404) ELSE EnterHandler(req)
    /\ UNCHANGED <<WEBHOOK_SECRET, reqno, text, prompt, result, provider, calls, files>>

webhook_with_secret ==
    /\ pc = "idle"
    /\ \E secret \in Secrets, b \in Bodies :
         LET req == [route |-> "secret", secret |-> secret, body |-> b]
         IN IF SecretRouteRejects(secret) THEN Reject(req, 403) ELSE EnterHandler(req)
    /\ UNCHANGED <<WEBHOOK_SECRET, reqno, text, prompt, result, provider, calls, files>>

----------------------------------------------------------------------------
(* handle_update *)

\* return "OK": Flask answers 200
ReturnOK ==
    /\ pc' = "done"
    /\ status' = 200

\* an exception leaves handle_update and the route: Flask answers 500
Raise ==
    /\ pc' = "done"
    /\ status' = 500

\* a call of a bot method: it is made, and then either returns, and the
\* handler goes on to `next`, or raises (network error, Telegram error)
BotCall(c, ok, next) ==
    /\ calls' = Append(calls, c)
    /\ IF ok
       THEN IF next = "done" THEN ReturnOK ELSE pc' = next /\ status' = status
       ELSE Raise

\* the mutant forgets `if not message: return "OK"`
HasMessageAlways(b) == TRUE

\* update.message is set
HasMessage(b) == b.kind \in {"non_text", "text"}

\* Update.de_json, `if not message`, text = message.text or ""
HandleUpdate ==
    /\ pc = "handle_update"
    /\ IF request.body.kind = "bad_envelope"
       THEN ReturnOK /\ text' = text
       ELSE IF ~HasMessage(request.body)
            THEN ReturnOK /\ text' = text
            ELSE /\ text' = request.body.text
                 /\ pc' = "dispatch"
                 /\ status' = status
    /\ UNCHANGED <<WEBHOOK_SECRET, reqno, request, accepted, prompt, result,
                   provider, calls, files>>

\* /start, /help
Help ==
    /\ pc = "dispatch"
    /\ IsHelp(text)
    /\ \E ok \in BOOLEAN :
         BotCall(Call("send_message", HELP_TEXT, <<>>, {}), ok, "done")
    /\ UNCHANGED <<WEBHOOK_SECRET, reqno, request, accepted, text, prompt,
                   result, provider, files>>

\* /imagen without prompt
ImagenUsage ==
    /\ pc = "dispatch"
    /\ IsImagen(text)
    /\ prompt' = Argument(text)
    /\ prompt' = <<>>
    /\ \E ok \in BOOLEAN :
         BotCall(Call("send_message", USO_IMAGEN, <<>>, {}), ok, "done")
    /\ UNCHANGED <<WEBHOOK_SECRET, reqno, request, accepted, text, result,
                   provider, files>>

\* /imagen <prompt>: "Generando imagen..."
ImagenAck ==
    /\ pc = "dispatch"
    /\ IsImagen(text)
    /\ prompt' = Argument(text)
    /\ prompt' # <<>>
    /\ \E ok \in BOOLEAN :
         BotCall(Call("send_message", GEN_IMAGEN, <<>>, {}), ok, "generate_image")
    /\ UNCHANGED <<WEBHOOK_SECRET, reqno, request, accepted, text, result,
                   provider, files>>

\* url_or_b64 = generate_image(prompt)
GenerateImage ==
    /\ pc = "generate_image"
    /\ \E o \in ImageOutcomes :
         /\ provider' = o
         /\ result' = ImageReturn(o)
    /\ calls' = Append(calls, Call("Image.create", prompt, <<>>, {}))
    /\ pc' = "image_result"
    /\ UNCHANGED <<WEBHOOK_SECRET, reqno, request, accepted, status, text,
                   prompt, files>>

\* if not url_or_b64
ImagenFailed ==
    /\ pc = "image_result"
    /\ ~Truthy(result)
    /\ \E ok \in BOOLEAN :
         BotCall(Call("send_message", NO_IMAGEN, <<>>, {}), ok, "done")
    /\ UNCHANGED <<WEBHOOK_SECRET, reqno, request, accepted, text, prompt,
                   result, provider, files>>

\* url_or_b64.startswith("http"): send_photo by URL
SendPhotoUrl ==
    /\ pc = "image_result"
    /\ Truthy(result)
    /\ StartsWith(result.value, S_http)
    /\ \E ok \in BOOLEAN :
         BotCall(Call("send_photo", result.value, prompt, {}), ok, "done")
    /\ UNCHANGED <<WEBHOOK_SECRET, reqno, request, accepted, text, prompt,
                   result, provider, files>>

\* b64decode, NamedTemporaryFile(delete=False, suffix=".png"), write, close
SaveImage ==
    /\ pc = "image_result"
    /\ Truthy(result)
    /\ ~StartsWith(result.value, S_http)
    /\ IF B64Decode(result.value).ok
       THEN /\ files' = files \cup {TmpFile(reqno, ".png")}
            /\ pc' = "send_photo_file"
            /\ status' = status
       ELSE /\ files' = files
            /\ Raise
    /\ UNCHANGED <<WEBHOOK_SECRET, reqno, request, accepted, text, prompt,
                   result, provider, calls>>

\* with open(tmp.name, "rb") as f: bot.send_photo(photo=f)
SendPhotoFile ==
    /\ pc = "send_photo_file"
    /\ \E ok \in BOOLEAN :
         BotCall(Call("send_photo", <<>>, prompt, {TmpFile(reqno, ".png")}),
                 ok, "unlink_png")
    /\ UNCHANGED <<WEBHOOK_SECRET, reqno, request, accepted, text, prompt,
                   result, provider, files>>

\* os.unlink(tmp.name)
UnlinkImage ==
    /\ pc = "unlink_png"
    /\ files' = files \ {TmpFile(reqno, ".png")}
    /\ ReturnOK
    /\ UNCHANGED <<WEBHOOK_SECRET, reqno, request, accepted, text, prompt,
                   result, provider, calls>>

\* /voz, /tts without prompt
VozUsage ==
    /\ pc = "dispatch"
    /\ IsVoz(text)
    /\ prompt' = Argument(text)
    /\ prompt' = <<>>
    /\ \E ok \in BOOLEAN :
         BotCall(Call("send_message", USO_VOZ, <<>>, {}), ok, "done")
    /\ UNCHANGED <<WEBHOOK_SECRET, reqno, request, accepted, text, result,
                   provider, files>>

\* /voz <prompt>: "Generando audio..."
VozAck ==
    /\ pc = "dispatch"
    /\ IsVoz(text)
    /\ prompt' = Argument(text)
    /\ prompt' # <<>>
    /\ \E ok \in BOOLEAN :
         BotCall(Call("send_message", GEN_AUDIO, <<>>, {}), ok, "text_to_speech_save")
    /\ UNCHANGED <<WEBHOOK_SECRET, reqno, request, accepted, text, result,
                   provider, files>>

\* path = text_to_speech_save(prompt): gTTS(), mkstemp, tts.save, return
\* path; an exception of any of them is caught and None is returned, and
\* nothing removes the file mkstemp created
TextToSpeechSave ==
    /\ pc = "text_to_speech_save"
    /\ \E stage \in TtsStages :
         /\ provider' = [NoProvider EXCEPT !.ok = (stage = "returned"),
                                           !.stage = stage]
         /\ files' = IF stage \in {"save", "returned"}
                     THEN files \cup {TmpFile(reqno, ".mp3")}
                     ELSE files
         /\ result' = IF stage = "returned" THEN Some(<<"mkstemp.mp3">>)
                      ELSE NoResult
    /\ calls' = Append(calls, Call("gTTS", prompt, <<>>, {}))
    /\ pc' = "speech_result"
    /\ UNCHANGED <<WEBHOOK_SECRET, reqno, request, accepted, status, text, prompt>>

\* if not path
VozFailed ==
    /\ pc = "speech_result"
    /\ ~Truthy(result)
    /\ \E ok \in BOOLEAN :
         BotCall(Call("send_message", NO_AUDIO, <<>>, {}), ok, "done")
    /\ UNCHANGED <<WEBHOOK_SECRET, reqno, request, accepted, text, prompt,
                   result, provider, files>>

\* with open(path, "rb") as audio_file: bot.send_audio(audio=audio_file)
SendAudio ==
    /\ pc = "speech_result"
    /\ Truthy(result)
    /\ \E ok \in BOOLEAN :
         BotCall(Call("send_audio", <<>>, <<>>, {TmpFile(reqno, ".mp3")}),
                 ok, "unlink_mp3")
    /\ UNCHANGED <<WEBHOOK_SECRET, reqno, request, accepted, text, prompt,
                   result, provider, files>>

\* os.unlink(path)
UnlinkAudio ==
    /\ pc = "unlink_mp3"
    /\ files' = files \ {TmpFile(reqno, ".mp3")}
    /\ ReturnOK
    /\ UNCHANGED <<WEBHOOK_SECRET, reqno, request, accepted, text, prompt,
                   result, provider, calls>>

\* default branch: bot.send_chat_action(TYPING)
Typing ==
    /\ pc = "dispatch"
    /\ IsChat(text)
    /\ \E ok \in BOOLEAN :
         BotCall(Call("send_chat_action", <<"typing">>, <<>>, {}), ok, "chatgpt_reply")
    /\ UNCHANGED <<WEBHOOK_SECRET, reqno, request, accepted, text, prompt,
                   result, provider, files>>

\* reply = chatgpt_reply(text)
ChatgptReply ==
    /\ pc = "chatgpt_reply"
    /\ \E o \in ChatOutcomes :
         /\ provider' = o
         /\ result' = Some(ChatReturn(o))
    /\ calls' = Append(calls, Call("ChatCompletion.create", text, <<>>, {}))
    /\ pc' = "send_reply"
    /\ UNCHANGED <<WEBHOOK_SECRET, reqno, request, accepted, status, text,
                   prompt, files>>

\* bot.send_message(chat_id, text=reply); return "OK"
SendReply ==
    /\ pc = "send_reply"
    /\ \E ok \in BOOLEAN :
         BotCall(Call("send_message", result.value, <<>>, {}), ok, "done")
    /\ UNCHANGED <<WEBHOOK_SECRET, reqno, request, accepted, text, prompt,
                   result, provider, files>>

\* the server takes the next request; the disk keeps what was left on it
NextRequest ==
    /\ pc = "done"
    /\ reqno < MaxRequests
    /\ reqno' = reqno + 1
    /\ pc' = "idle"
    /\ request' = NoRequest
    /\ accepted' = FALSE
    /\ status' = 0
    /\ text' = <<>>
    /\ prompt' = <<>>
    /\ result' = NoResult
    /\ provider' = NoProvider
    /\ calls' = <<>>
    /\ UNCHANGED <<WEBHOOK_SECRET, files>>

Next ==
    \/ webhook_no_secret
    \/ webhook_with_secret
    \/ HandleUpdate
    \/ Help
    \/ ImagenUsage
    \/ ImagenAck
    \/ GenerateImage
    \/ ImagenFailed
    \/ SendPhotoUrl
    \/ SaveImage
    \/ SendPhotoFile
    \/ UnlinkImage
    \/ VozUsage
    \/ VozAck
    \/ TextToSpeechSave
    \/ VozFailed
    \/ SendAudio
    \/ UnlinkAudio
    \/ Typing
    \/ ChatgptReply
    \/ SendReply
    \/ NextRequest

Spec == Init /\ [][Next]_vars

----------------------------------------------------------------------------
(* Vocabulary of the properties *)

CapabilityOps == {"ChatCompletion.create", "Image.create", "gTTS"}
SendOps == {"send_message", "send_photo", "send_audio", "send_chat_action"}

CallsOf(ops) == SelectSeq(calls, LAMBDA c : c.op \in ops)

\* the handling of an accepted request has ended (response produced)
Finished == pc = "done" /\ accepted

\* an accepted request carrying a text message has ended
FinishedText == Finished /\ request.body.kind = "text"

\* temporary files of the current request that are still on disk
Leftover == {f \in files : f.req = reqno}

\* every character after the first space is whitespace (also: no space)
ArgIsBlank(t) ==
    \A i \in 1..Len(t) :
        (\E j \in 1..(i - 1) : t[j] = " ") => t[i] \in Whitespace

HelpCmd(t) == StartsWith(t, S_start) \/ StartsWith(t, S_help)
ImagenCmd(t) == ~HelpCmd(t) /\ StartsWith(t, S_imagen)
VozCmd(t) == ~HelpCmd(t) /\ (StartsWith(t, S_voz) \/ StartsWith(t, S_tts))

TextMessage(m) == Call("send_message", m, <<>>, {})

----------------------------------------------------------------------------
(* C1 *)

\* C1: when the handling of a request ends, on any exit path, no temporary
\* file the request created (.png of /imagen, .mp3 of /voz) is left on disk.
C1_NoTempFileRemains == pc = "done" => Leftover = {}

----------------------------------------------------------------------------
(* C2 *)

\* C2: every POST that passed the secret check is answered 200, whatever
\* happened inside: malformed body or envelope, provider failure, failure of
\* a bot call.
C2_AlwaysAcknowledged == Finished => status = 200

----------------------------------------------------------------------------
(* C3 *)

\* C3: a request passes the route's check exactly when it satisfies the
\* configured mode (secret set: /webhook/<secret> with the configured secret;
\* no secret set: /webhook); a rejected /webhook is answered 404, a rejected
\* /webhook/<x> 403, and a rejected request is not dispatched and makes no
\* outbound call.
C3_RoutingBySecret ==
    pc # "idle" =>
        LET configured == WEBHOOK_SECRET # ""
            satisfied ==
                IF request.route = "plain" THEN ~configured
                ELSE configured /\ request.secret = WEBHOOK_SECRET
        IN /\ accepted <=> satisfied
           /\ ~accepted =>
                /\ pc = "done"
                /\ status = (IF request.route = "plain" THEN 404 ELSE 403)
                /\ calls = <<>>
                /\ Leftover = {}
           /\ accepted => status \notin {403, 404}

\* a wrong secret segment was presented while a secret is configured
C3_WrongSecretRejected ==
    /\ pc = "done"
    /\ WEBHOOK_SECRET = "abc123"
    /\ request.route = "secret"
    /\ request.secret = "wrong"
    /\ status = 403

----------------------------------------------------------------------------
(* C7 *)

\* C7: a text starting with /start or /help, and an /imagen, /voz or /tts
\* command whose argument is blank or missing, makes exactly one call in
\* all: one send_message with the help text, respectively the usage hint;
\* no capability call, no "working" message.
C7_LocalShortCircuit ==
    FinishedText =>
        LET t == request.body.text
            expected ==
                IF HelpCmd(t) THEN HELP_TEXT
                ELSE IF ImagenCmd(t) THEN USO_IMAGEN ELSE USO_VOZ
        IN (HelpCmd(t) \/ ((ImagenCmd(t) \/ VozCmd(t)) /\ ArgIsBlank(t)))
              => calls = <<TextMessage(expected)>>

\* an /imagen command followed only by whitespace got its usage hint
C7_BlankImagenArgument ==
    /\ FinishedText
    /\ ImagenCmd(request.body.text)
    /\ Len(request.body.text) > Len(S_imagen) + 1
    /\ ArgIsBlank(request.body.text)
    /\ calls = <<TextMessage(USO_IMAGEN)>>

----------------------------------------------------------------------------
(* C8 *)

----------------------------------------------------------------------------
(* C9 *)

\* C9: a message without text (photo, sticker) is ignored: no capability
\* call, nothing sent, only the acknowledgment.
C9_NonTextIgnored ==
    (Finished /\ request.body.kind = "non_text") =>
        /\ calls = <<>>
        /\ status = 200

----------------------------------------------------------------------------
(* C4 *)

Sent(c) == \E i \in 1..Len(calls) : calls[i] = c

\* C4: for "/voz " + s and "/tts " + s with s not blank, once the "working"
\* message is out, exactly one speech synthesis call is made; when it
\* succeeds the temporary file is sent with send_audio and removed; when it
\* fails, also after the file was created, the fallback message is sent and
\* no file remains.
C4_SpeechRelay ==
    LET t == request.body.text
    IN (/\ FinishedText
        /\ (StartsWith(t, S_voz \o <<" ">>) \/ StartsWith(t, S_tts \o <<" ">>))
        /\ ~ArgIsBlank(t)
        /\ Len(calls) > 1)
       =>
        /\ Len(CallsOf({"gTTS"})) = 1
        /\ provider.stage = "returned" =>
             /\ Sent(Call("send_audio", <<>>, <<>>, {TmpFile(reqno, ".mp3")}))
             /\ Leftover = {}
        /\ provider.stage \in {"gTTS", "mkstemp", "save"} =>
             /\ Sent(TextMessage(NO_AUDIO))
             /\ Leftover = {}

----------------------------------------------------------------------------
(* C5 *)

\* C5: for "/imagen " + s with s not blank, once the "working" message is
\* out, exactly one image generation call is made, with the (trimmed) s as
\* prompt; a result starting with http is relayed by send_photo with the
\* URL; any other result is relayed, if at all, by send_photo with the
\* decoded file, and the file is gone afterwards; an absent result gives the
\* failure message and no send_photo.
C5_ImageRelay ==
    LET t == request.body.text
        s == SubSeq(t, Len(S_imagen) + 2, Len(t))
    IN (/\ FinishedText
        /\ StartsWith(t, S_imagen \o <<" ">>)
        /\ ~ArgIsBlank(t)
        /\ Len(calls) > 1)
       =>
        /\ CallsOf(CapabilityOps) = <<Call("Image.create", Strip(s), <<>>, {})>>
        /\ (Truthy(result) /\ StartsWith(result.value, S_http)) =>
             CallsOf({"send_photo"}) = <<Call("send_photo", result.value, Strip(s), {})>>
        /\ (Truthy(result) /\ ~StartsWith(result.value, S_http)) =>
             /\ \A i \in 1..Len(calls) :
                    calls[i].op = "send_photo" =>
                        calls[i] = Call("send_photo", <<>>, Strip(s), {TmpFile(reqno, ".png")})
             /\ Leftover = {}
        /\ ~Truthy(result) =>
             /\ Sent(TextMessage(NO_IMAGEN))
             /\ CallsOf({"send_photo"}) = <<>>

----------------------------------------------------------------------------
(* C6 *)

\* C6: for a text with none of the known prefixes, exactly one capability
\* call is made, the chat completion with the whole text as prompt, and the
\* one text message sent is the provider's stripped output, or the fixed
\* apology when the provider call failed.
C6_ChatRelay ==
    LET t == request.body.text
    IN (FinishedText /\ ~HelpCmd(t) /\ ~ImagenCmd(t) /\ ~VozCmd(t))
       =>
        /\ CallsOf(CapabilityOps) = <<Call("ChatCompletion.create", t, <<>>, {})>>
        /\ CallsOf({"send_message"}) =
               <<TextMessage(IF provider.ok THEN Strip(provider.out) ELSE CHAT_ERROR)>>

----------------------------------------------------------------------------
(* C10 *)

\* C10: per message at most one capability call is made; the "working"
\* message (image, speech) or the typing indicator (chat) precedes it; and
\* exactly one outbound send follows it.
C10_OrderNoRetries ==
    Finished =>
        /\ Len(CallsOf(CapabilityOps)) <= 1
        /\ \A i \in 1..Len(calls) :
             calls[i].op \in CapabilityOps =>
                /\ calls[i].op = "Image.create" =>
                     \E j \in 1..(i - 1) : calls[j] = TextMessage(GEN_IMAGEN)
                /\ calls[i].op = "gTTS" =>
                     \E j \in 1..(i - 1) : calls[j] = TextMessage(GEN_AUDIO)
                /\ calls[i].op = "ChatCompletion.create" =>
                     \E j \in 1..(i - 1) : calls[j].op = "send_chat_action"
                /\ Len(calls) = i + 1
                /\ calls[i + 1].op \in SendOps \ {"send_chat_action"}

====
